---- MODULE Spec2Model ----
(***************************************************************************)
(* FrequencyVisualizer (components/ResultsView): the capture life cycle of *)
(* the effect (processAudio, the 100 ms timer callback, the effect         *)
(* cleanup) and the chart layout computed by drawChart.                    *)
(*                                                                         *)
(* Numbers that are fractions in the program (bin frequencies, bar widths, *)
(* bar heights) are kept as exact fractions num/den.                       *)
(***************************************************************************)
EXTENDS Integers, Sequences, FiniteSets, TLC

VARIABLES
    phase,      \* "initial", "mounted" or "unmounted": the component instance
    nRuns,      \* number of effect runs so far; the current run is nRuns
    size,       \* getBoundingClientRect() of the svg node: [w, h]
    svg,        \* what the svg node contains
    lastCall,   \* the arguments of the latest drawChart call
    lastRead,   \* the latest analyser.getByteFrequencyData result
    eqOf,       \* per run: the eqSettings prop its closure captured
    pc,         \* per run: where processAudio and its timer stand
    ctxState,   \* per run: "null" (no context), or audioContext.state
    promise,    \* per run: the promise returned by processAudio()
    source,     \* per run: the buffer source: "none", "playing", "stopped"
    rateOf,     \* per run: audioBuffer.sampleRate once decoded
    disposed,   \* per run: the effect cleanup has run
    closeCalls, \* per run: number of audioContext.close() calls made
    \* AudioInput
    inputMounted,     \* the AudioInput instance is rendered
    isRecording,      \* useState isRecording
    audioURL,         \* useState audioURL: "null", or what the URL points to
    inputAudioBlob,   \* useState audioBlob of AudioInput: "null", "recording", "file"
    mimeType,         \* useState mimeType
    recordTime,       \* useState recordTime
    pendingMic,       \* getUserMedia promises not yet settled
    nRecorders,       \* MediaRecorders constructed so far
    recorders,        \* per recorder: "none", "recording", "stopping", "inactive"
    streams,          \* per recorder: its microphone stream: "none", "live", "stopped"
    intervals,        \* per recorder: its seconds interval: "none", "running", "cleared"
    mediaRecorderRef, \* mediaRecorderRef.current: 0 for null, or a recorder
    timerIntervalRef, \* timerIntervalRef.current: 0 for null, or an interval
    \* App and analyzeAudio
    status,           \* useState status
    error,            \* useState error
    vocalProfile,     \* useState vocalProfile
    eqSettings,       \* useState eqSettings
    appAudioBlob,     \* useState audioBlob of App
    audacityXml,      \* useState audacityXml
    job,              \* where handleAudioSubmit stands: "none", "toBase64", "analyzing"
    analysisIn,       \* what the latest analyzeAudio call met underneath
    analysisOut       \* how the latest analyzeAudio call settled

vizVars == <<phase, nRuns, size, svg, lastCall, lastRead, eqOf, pc, ctxState, promise,
             source, rateOf, disposed, closeCalls>>

inputVars == <<inputMounted, isRecording, audioURL, inputAudioBlob, mimeType,
               recordTime, pendingMic, nRecorders, recorders, streams, intervals,
               mediaRecorderRef, timerIntervalRef>>

appVars == <<status, error, vocalProfile, eqSettings, appAudioBlob, audacityXml,
             job, analysisIn, analysisOut>>

vars == <<vizVars, inputVars, appVars>>

(***************************************************************************)
(* Bounds of the model.                                                    *)
(***************************************************************************)
\* number of effect runs (mount plus re-renders) of one component instance
MaxRuns == 2
\* longest magnitude array handed to drawChart in the stand-alone chart runs
MaxBins == 3
\* number of microphone requests (Record clicks) of one AudioInput instance
MaxRecorders == 2
\* the seconds counter is followed up to this value
MaxRecordTime == 182

(***************************************************************************)
(* Program constants.                                                      *)
(***************************************************************************)
fftSize == 2048
MinFreq == 20
MaxFreq == 20000
marginTop == 20
marginRight == 20
marginBottom == 40
marginLeft == 50
\* 10^0.1 = 1.2589254117..., the ratio that a log10 distance of 0.1 stands
\* for, as the fraction TolNum / TolDen
TolNum == 1258925412
TolDen == 1000000000

BoostColor == "#22c55e"
CutColor == "#ef4444"
NeutralColor == "#00BFFF"
DecodeErrorMessage == "Error decoding audio file."
SilentMessage == "Could not visualize audio: sample may be silent."
NoDataMessage == "No audio data to display."
\* the value of an omitted optional argument
Undefined == "undefined"

(***************************************************************************)
(* The components before anything happened to them.                        *)
(***************************************************************************)
Recorders == 1..MaxRecorders

\* AudioInput after its first render
InputInit ==
    /\ inputMounted = TRUE
    /\ isRecording = FALSE
    /\ audioURL = "null"
    /\ inputAudioBlob = "null"
    /\ mimeType = "audio/webm"
    /\ recordTime = 0
    /\ pendingMic = 0
    /\ nRecorders = 0
    /\ recorders = [i \in Recorders |-> "none"]
    /\ streams = [i \in Recorders |-> "none"]
    /\ intervals = [i \in Recorders |-> "none"]
    /\ mediaRecorderRef = 0
    /\ timerIntervalRef = 0

NoAnalysis == [kind |-> "none"]
\* messages are sequences of fragments; the null error is the empty one
NullError == <<>>

\* App after its first render
AppInit ==
    /\ status = "idle"
    /\ error = NullError
    /\ vocalProfile = "null"
    /\ eqSettings = "null"
    /\ appAudioBlob = "null"
    /\ audacityXml = "null"
    /\ job = "none"
    /\ analysisIn = NoAnalysis
    /\ analysisOut = NoAnalysis

(***************************************************************************)
(* Arithmetic helpers.                                                     *)
(***************************************************************************)
RECURSIVE FracLess(_, _, _, _)
\* a/b < c/d for a, c >= 0 and b, d > 0, by continued-fraction expansion so
\* that no product is formed
FracLess(a, b, c, d) ==
    LET qa == a \div b
        qc == c \div d
        ra == a % b
        rc == c % d
    IN  IF qa # qc THEN qa < qc
        ELSE IF rc = 0 THEN FALSE
        ELSE IF ra = 0 THEN TRUE
        ELSE FracLess(d, rc, b, ra)

\* Math.abs(Math.log10(eqFreq) - Math.log10(fnum/fden)) < 0.1
\* , i.e. 10^-0.1 < eqFreq / (fnum/fden) < 10^0.1
LogClose(eqFreq, fnum, fden) ==
    /\ eqFreq > 0
    /\ fnum > 0
    /\ FracLess(eqFreq * fden, fnum, TolNum, TolDen)
    /\ FracLess(fnum, eqFreq * fden, TolNum, TolDen)

(***************************************************************************)
(* drawChart                                                               *)
(***************************************************************************)
\* the svg after svg.selectAll("*").remove()
EmptySvg == [axes |-> FALSE, text |-> Undefined, bars |-> <<>>]

\* Array.from(dataArray).map((d, i) => ({frequency, amplitude}))
\* index is the 0-based array index i; frequency is fnum / fden
BinData(dataArray, sampleRate) ==
    [k \in 1..Len(dataArray) |->
        [index |-> k - 1,
         fnum |-> (k - 1) * sampleRate,
         fden |-> 2 * Len(dataArray),
         amplitude |-> dataArray[k]]]

\* a filter that drops the bins at exactly 20 Hz and 20000 Hz
InDisplayRangeStrict(d) ==
    /\ d.fnum > MinFreq * d.fden
    /\ d.fnum < MaxFreq * d.fden

\* d.frequency >= 20 && d.frequency <= 20000
InDisplayRange(d) ==
    /\ d.fnum >= MinFreq * d.fden
    /\ d.fnum <= MaxFreq * d.fden

FilteredData(dataArray, sampleRate) ==
    SelectSeq(BinData(dataArray, sampleRate), InDisplayRange)

\* a search that returns the last qualifying point
FindLastEq(eq, d) ==
    LET hits == {k \in 1..Len(eq) : LogClose(eq[k].frequency, d.fnum, d.fden)}
    IN  IF hits = {} THEN 0
        ELSE CHOOSE k \in hits : \A j \in hits : k >= j

\* eqSettings.find(eq => ...): the index of the first qualifying point, 0 if none
FindClosestEq(eq, d) ==
    LET hits == {k \in 1..Len(eq) : LogClose(eq[k].frequency, d.fnum, d.fden)}
    IN  IF hits = {} THEN 0
        ELSE CHOOSE k \in hits : \A j \in hits : k <= j

BarFill(eq, d) ==
    LET k == FindClosestEq(eq, d)
    IN  IF k = 0 THEN NeutralColor
        ELSE IF eq[k].gain > 0 THEN BoostColor ELSE CutColor

\* .attr("width", barWidth > 0 ? barWidth : 1) with barWidth = width / data.length
\* (a positive width divided by 0 is Infinity, which is > 0: den 0 stands for it)
BarWidthAttr(width, count) ==
    IF width > 0 /\ count >= 0
    THEN [num |-> width, den |-> count]
    ELSE [num |-> 1, den |-> 1]

\* a fallback for a missing message only: message ?? "No audio data to display."
PlaceholderTextNullish(message) ==
    IF message = Undefined THEN NoDataMessage ELSE message

\* message || "No audio data to display."
PlaceholderText(message) ==
    IF message = Undefined \/ message = "" THEN NoDataMessage ELSE message

\* drawChart without the return on an empty plot area
DrawChartNoSizeCheck(old, hasNode, rect, eq, dataArray, sampleRate, message) ==
    LET width == rect.w - marginLeft - marginRight
        height == rect.h - marginTop - marginBottom
        data == FilteredData(dataArray, sampleRate)
        bw == BarWidthAttr(width, Len(data))
    IN  IF ~hasNode THEN old
        ELSE IF Len(dataArray) = 0 \/ sampleRate = 0
        THEN [axes |-> TRUE, text |-> PlaceholderText(message), bars |-> <<>>]
        ELSE [axes |-> TRUE, text |-> Undefined,
              bars |-> [k \in 1..Len(data) |->
                  [index |-> data[k].index,
                   fnum |-> data[k].fnum,
                   fden |-> data[k].fden,
                   amplitude |-> data[k].amplitude,
                   wnum |-> bw.num,
                   wden |-> bw.den,
                   hnum |-> data[k].amplitude * height,
                   hden |-> 255,
                   fill |-> BarFill(eq, data[k])]]]

\* The content of the svg after drawChart(dataArray, sampleRate, message) ran;
\* old is the content before, kept when there is no node to select.
DrawChart(old, hasNode, rect, eq, dataArray, sampleRate, message) ==
    LET width == rect.w - marginLeft - marginRight
        height == rect.h - marginTop - marginBottom
        data == FilteredData(dataArray, sampleRate)
        bw == BarWidthAttr(width, Len(data))
    IN  IF ~hasNode THEN old
        ELSE IF width <= 0 \/ height <= 0 THEN EmptySvg
        ELSE IF Len(dataArray) = 0 \/ sampleRate = 0
        THEN [axes |-> TRUE, text |-> PlaceholderText(message), bars |-> <<>>]
        ELSE [axes |-> TRUE, text |-> Undefined,
              bars |-> [k \in 1..Len(data) |->
                  [index |-> data[k].index,
                   fnum |-> data[k].fnum,
                   fden |-> data[k].fden,
                   amplitude |-> data[k].amplitude,
                   wnum |-> bw.num,
                   wden |-> bw.den,
                   hnum |-> data[k].amplitude * height,
                   hden |-> 255,
                   fill |-> BarFill(eq, data[k])]]]

(***************************************************************************)
(* Inputs of the capture life cycle.                                       *)
(***************************************************************************)
Runs == 1..MaxRuns
EqChoices ==
    {<<[frequency |-> 1000, gain |-> 3], [frequency |-> 5000, gain |-> -2]>>,
     <<[frequency |-> 1000, gain |-> -3], [frequency |-> 1100, gain |-> 2]>>}
Sizes == {[w |-> 370, h |-> 256]}
SampleRates == {44100, 48000}

\* analyser.frequencyBinCount
frequencyBinCount == fftSize \div 2

Silent == [k \in 1..frequencyBinCount |-> 0]
Tone == [k \in 1..frequencyBinCount |-> IF k = 48 THEN 200 ELSE 0]
\* what analyser.getByteFrequencyData may deliver
AnalyserOutputs == {Silent, Tone}

NoCall == [run |-> 0, dataArray |-> <<>>, sampleRate |-> 0, message |-> Undefined]
NoRead == [run |-> 0, dataArray |-> <<>>]

Init ==
    /\ phase = "initial"
    /\ nRuns = 0
    /\ size = [w |-> 0, h |-> 0]
    /\ svg = EmptySvg
    /\ lastCall = NoCall
    /\ lastRead = NoRead
    /\ eqOf = [r \in Runs |-> <<>>]
    /\ pc = [r \in Runs |-> "unused"]
    /\ ctxState = [r \in Runs |-> "null"]
    /\ promise = [r \in Runs |-> "none"]
    /\ source = [r \in Runs |-> "none"]
    /\ rateOf = [r \in Runs |-> 0]
    /\ disposed = [r \in Runs |-> FALSE]
    /\ closeCalls = [r \in Runs |-> 0]
    /\ InputInit
    /\ AppInit

\* d3Container.current is the svg node while the component is mounted
HasNode == phase = "mounted"

(***************************************************************************)
(* The effect of FrequencyVisualizer: processAudio, timer callback,        *)
(* cleanup.                                                                *)
(***************************************************************************)
\* a cleanup without the null check
CleanupClosesUnlessClosed(r) == ctxState[r] # "closed"

\* if (audioContext && audioContext.state !== 'closed') in the cleanup
CleanupCloses(r) == ctxState[r] # "null" /\ ctxState[r] # "closed"

\* a cleanup that forgets to close
CleanupStateKeepsOpen(r) == ctxState[r]

\* audioContext.state of run r after the cleanup of run r
CleanupState(r) == IF CleanupCloses(r) THEN "closed" ELSE ctxState[r]

\* close() calls of run r after the cleanup of run r
CleanupCalls(r) == IF CleanupCloses(r) THEN closeCalls[r] + 1 ELSE closeCalls[r]

\* First render: the effect runs and processAudio goes as far as its first
\* await.  hostAllows = FALSE: `new AudioContext()` throws, processAudio()
\* rejects and the rejection goes to console.error.
Mount(eq, sz, hostAllows) ==
    /\ phase = "initial"
    /\ phase' = "mounted"
    /\ nRuns' = 1
    /\ size' = sz
    /\ eqOf' = [eqOf EXCEPT ![1] = eq]
    /\ ctxState' = [ctxState EXCEPT ![1] = IF hostAllows THEN "running" ELSE "null"]
    /\ pc' = [pc EXCEPT ![1] = IF hostAllows THEN "awaitBuffer" ELSE "end"]
    /\ promise' = [promise EXCEPT ![1] = IF hostAllows THEN "pending" ELSE "rejected"]
    /\ UNCHANGED <<svg, lastCall, lastRead, source, rateOf, disposed, closeCalls>>
    /\ UNCHANGED <<inputVars, appVars>>

\* audioBlob or eqSettings changed (eq is the eqSettings of the new render):
\* the cleanup of the current run, then the effect again, in the same commit.
Rerender(eq, hostAllows) ==
    /\ phase = "mounted"
    /\ nRuns < MaxRuns
    /\ LET old == nRuns
           new == nRuns + 1
       IN  /\ nRuns' = new
           /\ eqOf' = [eqOf EXCEPT ![new] = eq]
           /\ disposed' = [disposed EXCEPT ![old] = TRUE]
           /\ closeCalls' = [closeCalls EXCEPT ![old] = CleanupCalls(old)]
           /\ ctxState' = [ctxState EXCEPT
                  ![old] = CleanupState(old),
                  ![new] = IF hostAllows THEN "running" ELSE "null"]
           /\ pc' = [pc EXCEPT ![new] = IF hostAllows THEN "awaitBuffer" ELSE "end"]
           /\ promise' = [promise EXCEPT
                  ![new] = IF hostAllows THEN "pending" ELSE "rejected"]
    /\ UNCHANGED <<phase, size, svg, lastCall, lastRead, source, rateOf>>
    /\ UNCHANGED <<inputVars, appVars>>

\* The component is removed: the cleanup of the current run; the ref is null
\* from now on.
Unmount ==
    /\ phase = "mounted"
    /\ phase' = "unmounted"
    /\ disposed' = [disposed EXCEPT ![nRuns] = TRUE]
    /\ closeCalls' = [closeCalls EXCEPT ![nRuns] = CleanupCalls(nRuns)]
    /\ ctxState' = [ctxState EXCEPT ![nRuns] = CleanupState(nRuns)]
    /\ UNCHANGED <<nRuns, size, svg, lastCall, lastRead, eqOf, pc, promise, source,
                   rateOf>>
    /\ UNCHANGED <<inputVars, appVars>>

\* audioBlob.arrayBuffer() resolves; decodeAudioData is called.
BufferReady(r) ==
    /\ pc[r] = "awaitBuffer"
    /\ pc' = [pc EXCEPT ![r] = "awaitDecode"]
    /\ UNCHANGED <<phase, nRuns, size, svg, lastCall, lastRead, eqOf, ctxState,
                   promise, source, rateOf, disposed, closeCalls>>
    /\ UNCHANGED <<inputVars, appVars>>

\* a catch block that forgets to close
CatchClosesNever(r) == FALSE

\* if (audioContext) audioContext.close(); in the catch block
CatchCloses(r) == ctxState[r] # "null"

\* decodeAudioData rejects: the catch block.
DecodeFail(r) ==
    /\ pc[r] = "awaitDecode"
    /\ svg' = DrawChart(svg, HasNode, size, eqOf[r], <<>>, 0, DecodeErrorMessage)
    /\ lastCall' = [run |-> r, dataArray |-> <<>>, sampleRate |-> 0,
                    message |-> DecodeErrorMessage]
    /\ IF CatchCloses(r)
       THEN /\ ctxState' = [ctxState EXCEPT ![r] = "closed"]
            /\ closeCalls' = [closeCalls EXCEPT ![r] = @ + 1]
       ELSE UNCHANGED <<ctxState, closeCalls>>
    /\ pc' = [pc EXCEPT ![r] = "end"]
    /\ promise' = [promise EXCEPT ![r] = "resolved"]
    /\ UNCHANGED <<phase, nRuns, size, lastRead, eqOf, source, rateOf, disposed>>
    /\ UNCHANGED <<inputVars, appVars>>

\* decodeAudioData resolves with a buffer of sample rate rate: the graph is
\* built, the source started and the timer set; processAudio() resolves.
DecodeOk(r, rate) ==
    /\ pc[r] = "awaitDecode"
    /\ rateOf' = [rateOf EXCEPT ![r] = rate]
    /\ source' = [source EXCEPT ![r] = "playing"]
    /\ pc' = [pc EXCEPT ![r] = "awaitTimer"]
    /\ promise' = [promise EXCEPT ![r] = "resolved"]
    /\ UNCHANGED <<phase, nRuns, size, svg, lastCall, lastRead, eqOf, ctxState,
                   disposed, closeCalls>>
    /\ UNCHANGED <<inputVars, appVars>>

\* a callback that only tests for a missing context
TimerSkipsOnlyNull(r) == ctxState[r] = "null"

\* a callback without the early return
TimerSkipsNever(r) == FALSE

\* if (!audioContext || audioContext.state === 'closed') return;
TimerSkips(r) == ctxState[r] = "null" \/ ctxState[r] = "closed"

\* a test of the first magnitude only
SomePositiveFirstOnly(dataArray) == Len(dataArray) > 0 /\ dataArray[1] > 0

\* dataArray.some(d => d > 0)
SomePositive(dataArray) == \E k \in 1..Len(dataArray) : dataArray[k] > 0

\* The 100 ms timer callback; dataArray is what the analyser delivers.
TimerFire(r, dataArray) ==
    /\ pc[r] = "awaitTimer"
    /\ pc' = [pc EXCEPT ![r] = "end"]
    /\ IF TimerSkips(r)
       THEN UNCHANGED <<svg, lastCall, lastRead, ctxState, source, closeCalls>>
       ELSE /\ lastRead' = [run |-> r, dataArray |-> dataArray]
            /\ source' = [source EXCEPT ![r] = "stopped"]
            /\ IF SomePositive(dataArray)
               THEN /\ svg' = DrawChart(svg, HasNode, size, eqOf[r], dataArray,
                                        rateOf[r], Undefined)
                    /\ lastCall' = [run |-> r, dataArray |-> dataArray,
                                    sampleRate |-> rateOf[r],
                                    message |-> Undefined]
               ELSE /\ svg' = DrawChart(svg, HasNode, size, eqOf[r], <<>>, 0,
                                        SilentMessage)
                    /\ lastCall' = [run |-> r, dataArray |-> <<>>,
                                    sampleRate |-> 0,
                                    message |-> SilentMessage]
            /\ ctxState' = [ctxState EXCEPT ![r] = "closed"]
            /\ closeCalls' = [closeCalls EXCEPT ![r] = @ + 1]
    /\ UNCHANGED <<phase, nRuns, size, eqOf, promise, rateOf, disposed>>
    /\ UNCHANGED <<inputVars, appVars>>

Next ==
    \/ \E eq \in EqChoices, sz \in Sizes, ok \in BOOLEAN : Mount(eq, sz, ok)
    \/ \E eq \in EqChoices, ok \in BOOLEAN : Rerender(eq, ok)
    \/ Unmount
    \/ \E r \in Runs : BufferReady(r)
    \/ \E r \in Runs : DecodeFail(r)
    \/ \E r \in Runs, rate \in SampleRates : DecodeOk(r, rate)
    \/ \E r \in Runs, dataArray \in AnalyserOutputs : TimerFire(r, dataArray)

Spec == Init /\ [][Next]_vars

(***************************************************************************)
(* drawChart on its own: the component is mounted with some eqSettings and *)
(* some size, and drawChart is applied to arbitrary small arguments.       *)
(***************************************************************************)
ChartAmplitudes == {0, 7, 255}
ChartSampleRates == {0, 60, 300, 6030, 30060, 120000}
ChartMessages == {Undefined, "", DecodeErrorMessage}
ChartSizes ==
    {[w |-> 0, h |-> 0], [w |-> 71, h |-> 256], [w |-> 370, h |-> 60],
     [w |-> 370, h |-> 256]}
ChartEqChoices ==
    {<<>>,
     <<[frequency |-> 1000, gain |-> 0]>>,
     <<[frequency |-> 1000, gain |-> 3], [frequency |-> 5000, gain |-> -2]>>,
     <<[frequency |-> 1000, gain |-> -3], [frequency |-> 1100, gain |-> 2]>>,
     <<[frequency |-> 1100, gain |-> 2], [frequency |-> 1000, gain |-> -3]>>}

\* every magnitude array of at most MaxBins entries
ChartArrays ==
    UNION {[1..n -> ChartAmplitudes] : n \in 0..MaxBins}

ChartInit ==
    /\ phase = "mounted"
    /\ nRuns = 1
    /\ size \in ChartSizes
    /\ svg = EmptySvg
    /\ lastCall = NoCall
    /\ lastRead = NoRead
    /\ eqOf \in {[r \in Runs |-> IF r = 1 THEN eq ELSE <<>>] : eq \in ChartEqChoices}
    /\ pc = [r \in Runs |-> IF r = 1 THEN "awaitBuffer" ELSE "unused"]
    /\ ctxState = [r \in Runs |-> IF r = 1 THEN "running" ELSE "null"]
    /\ promise = [r \in Runs |-> IF r = 1 THEN "pending" ELSE "none"]
    /\ source = [r \in Runs |-> "none"]
    /\ rateOf = [r \in Runs |-> 0]
    /\ disposed = [r \in Runs |-> FALSE]
    /\ closeCalls = [r \in Runs |-> 0]
    /\ InputInit
    /\ AppInit

\* One drawChart call on the mounted component.  drawChart clears the svg
\* first, so a second call would show nothing a first call cannot show.
ChartDraw(dataArray, sampleRate, message) ==
    /\ lastCall = NoCall
    /\ svg' = DrawChart(svg, HasNode, size, eqOf[1], dataArray, sampleRate, message)
    /\ lastCall' = [run |-> 1, dataArray |-> dataArray,
                    sampleRate |-> sampleRate, message |-> message]
    /\ UNCHANGED <<phase, nRuns, size, lastRead, eqOf, pc, ctxState, promise,
                   source, rateOf, disposed, closeCalls>>
    /\ UNCHANGED <<inputVars, appVars>>

ChartNext ==
    \E dataArray \in ChartArrays, sampleRate \in ChartSampleRates,
       message \in ChartMessages : ChartDraw(dataArray, sampleRate, message)

ChartSpec == ChartInit /\ [][ChartNext]_vars

(***************************************************************************)
(* AudioInput: recording, upload, submit, reset.  The chunks collected in  *)
(* audioChunksRef are pushed and consumed within one stop of a recorder    *)
(* and are not kept as state.                                              *)
(***************************************************************************)
\* the user-facing recording limit: "Record up to 3 minutes of audio"
RecordLimitSeconds == 180

\* "Record Voice" is shown while not recording and disabled once a blob exists
ClickRecord ==
    /\ inputMounted
    /\ ~isRecording
    /\ inputAudioBlob = "null"
    /\ pendingMic + nRecorders < MaxRecorders
    /\ pendingMic' = pendingMic + 1
    /\ UNCHANGED <<inputMounted, isRecording, audioURL, inputAudioBlob, mimeType,
                   recordTime, nRecorders, recorders, streams, intervals,
                   mediaRecorderRef, timerIntervalRef>>
    /\ UNCHANGED <<vizVars, appVars>>

\* getUserMedia resolves: the rest of handleStartRecording.  webm tells
\* MediaRecorder.isTypeSupported('audio/webm').  The setters of an unmounted
\* component change nothing; the refs and the browser objects change anyway.
MicGranted(webm) ==
    /\ pendingMic > 0
    /\ pendingMic' = pendingMic - 1
    /\ LET id == nRecorders + 1
       IN  /\ nRecorders' = id
           /\ recorders' = [recorders EXCEPT ![id] = "recording"]
           /\ streams' = [streams EXCEPT ![id] = "live"]
           /\ intervals' = [intervals EXCEPT ![id] = "running"]
           /\ mediaRecorderRef' = id
           /\ timerIntervalRef' = id
    /\ IF inputMounted
       THEN /\ isRecording' = TRUE
            /\ audioURL' = "null"
            /\ inputAudioBlob' = "null"
            /\ mimeType' = IF webm THEN "audio/webm" ELSE "audio/mp4"
            /\ recordTime' = 0
       ELSE UNCHANGED <<isRecording, audioURL, inputAudioBlob, mimeType, recordTime>>
    /\ UNCHANGED inputMounted
    /\ UNCHANGED <<vizVars, appVars>>

\* getUserMedia rejects: the catch block (console.error and alert)
MicDenied ==
    /\ pendingMic > 0
    /\ pendingMic' = pendingMic - 1
    /\ UNCHANGED <<inputMounted, isRecording, audioURL, inputAudioBlob, mimeType,
                   recordTime, nRecorders, recorders, streams, intervals,
                   mediaRecorderRef, timerIntervalRef>>
    /\ UNCHANGED <<vizVars, appVars>>

\* clearInterval(timerIntervalRef.current) when the ref is set
ClearedIntervals ==
    IF timerIntervalRef # 0 /\ intervals[timerIntervalRef] = "running"
    THEN [intervals EXCEPT ![timerIntervalRef] = "cleared"]
    ELSE intervals

\* handleStopRecording: the button is shown while isRecording.  stop() on a
\* recorder that is not recording throws and ends the handler.
ClickStop ==
    /\ inputMounted
    /\ isRecording
    /\ IF mediaRecorderRef # 0 /\ recorders[mediaRecorderRef] = "recording"
       THEN /\ recorders' = [recorders EXCEPT ![mediaRecorderRef] = "stopping"]
            /\ isRecording' = FALSE
            /\ intervals' = ClearedIntervals
       ELSE UNCHANGED <<recorders, isRecording, intervals>>
    /\ UNCHANGED <<inputMounted, audioURL, inputAudioBlob, mimeType, recordTime,
                   pendingMic, nRecorders, streams, mediaRecorderRef,
                   timerIntervalRef>>
    /\ UNCHANGED <<vizVars, appVars>>

\* the dataavailable and stop events of a stopped recorder: ondataavailable
\* and onstop
RecorderStopped(id) ==
    /\ recorders[id] = "stopping"
    /\ recorders' = [recorders EXCEPT ![id] = "inactive"]
    /\ streams' = [streams EXCEPT ![id] = "stopped"]
    /\ IF inputMounted
       THEN /\ inputAudioBlob' = "recording"
            /\ audioURL' = "recording"
       ELSE UNCHANGED <<inputAudioBlob, audioURL>>
    /\ UNCHANGED <<inputMounted, isRecording, mimeType, recordTime, pendingMic,
                   nRecorders, intervals, mediaRecorderRef, timerIntervalRef>>
    /\ UNCHANGED <<vizVars, appVars>>

\* handleFileUpload with an audio file; the input is disabled while recording
\* or once a blob exists
FileUpload ==
    /\ inputMounted
    /\ ~isRecording
    /\ inputAudioBlob = "null"
    /\ inputAudioBlob' = "file"
    /\ mimeType' = "audio/mpeg"
    /\ audioURL' = "file"
    /\ UNCHANGED <<inputMounted, isRecording, recordTime, pendingMic, nRecorders,
                   recorders, streams, intervals, mediaRecorderRef,
                   timerIntervalRef>>
    /\ UNCHANGED <<vizVars, appVars>>

\* handleSubmit: onAudioSubmit puts App into 'processing', which removes
\* AudioInput; its unmount cleanup clears the interval of the ref.
ClickSubmit ==
    /\ inputMounted
    /\ audioURL # "null"
    /\ inputAudioBlob # "null"
    /\ inputMounted' = FALSE
    /\ intervals' = ClearedIntervals
    /\ UNCHANGED <<isRecording, audioURL, inputAudioBlob, mimeType, recordTime,
                   pendingMic, nRecorders, recorders, streams, mediaRecorderRef,
                   timerIntervalRef>>
    /\ UNCHANGED <<vizVars, appVars>>

\* handleReset: the button is shown with the audio sample
ClickReset ==
    /\ inputMounted
    /\ audioURL # "null"
    /\ inputAudioBlob' = "null"
    /\ audioURL' = "null"
    /\ isRecording' = FALSE
    /\ recordTime' = 0
    /\ recorders' =
           IF mediaRecorderRef # 0 /\ recorders[mediaRecorderRef] = "recording"
           THEN [recorders EXCEPT ![mediaRecorderRef] = "stopping"]
           ELSE recorders
    /\ intervals' = ClearedIntervals
    /\ UNCHANGED <<inputMounted, mimeType, pendingMic, nRecorders, streams,
                   mediaRecorderRef, timerIntervalRef>>
    /\ UNCHANGED <<vizVars, appVars>>

\* a running interval fires: setRecordTime(prev => prev + 1)
Tick(id) ==
    /\ intervals[id] = "running"
    /\ inputMounted
    /\ recordTime < MaxRecordTime
    /\ recordTime' = recordTime + 1
    /\ UNCHANGED <<inputMounted, isRecording, audioURL, inputAudioBlob, mimeType,
                   pendingMic, nRecorders, recorders, streams, intervals,
                   mediaRecorderRef, timerIntervalRef>>
    /\ UNCHANGED <<vizVars, appVars>>

InputNext ==
    \/ ClickRecord
    \/ \E webm \in BOOLEAN : MicGranted(webm)
    \/ MicDenied
    \/ ClickStop
    \/ \E id \in Recorders : RecorderStopped(id)
    \/ FileUpload
    \/ ClickSubmit
    \/ ClickReset
    \/ \E id \in Recorders : Tick(id)

InputSpec == Init /\ [][InputNext]_vars

(***************************************************************************)
(* analyzeAudio (services/geminiService) and App.  A message is a sequence *)
(* of fragments, so that message.includes('SAFETY') is the presence of the *)
(* fragment "SAFETY".                                                      *)
(***************************************************************************)
SafetyMessage ==
    <<"The audio could not be processed due to safety settings. Please try a different audio sample.">>
GenericMessage ==
    <<"Failed to get analysis from Gemini. Please check the console for more details.">>
EmptyResponseMessage == <<"Gemini returned an empty response.">>
Base64FailedMessage == <<"Failed to convert blob to base64">>
UnknownErrorMessage == <<"An unknown error occurred during analysis.">>

\* error.message.includes(word)
Includes(message, word) == \E i \in 1..Len(message) : message[i] = word

\* what generateContent can reject with: an Error with a message, or a value
\* that is not an Error and has no message
RejectionCauses ==
    {[isError |-> TRUE, message |-> <<"429 quota exceeded">>],
     [isError |-> TRUE, message |-> <<"candidate blocked: ", "SAFETY">>],
     [isError |-> FALSE, message |-> <<>>]}

\* the values a response that follows responseSchema parses to
ParsedValues ==
    [vocalProfile : {"profile"}, eqPreset : {"empty", "points"},
     audacityXml : {"", "xml"}]

\* response.text: JSON of a value, or characters that are not JSON (none at
\* all for an empty or missing text)
ResponseTexts ==
    {[json |-> TRUE, value |-> v, chars |-> <<"{...}">>] : v \in ParsedValues}
    \cup {[json |-> FALSE, value |-> Undefined, chars |-> c] :
            c \in {<<>>, <<"I cannot analyze this audio">>, <<"SAFETY", " filter">>}}

\* what one analyzeAudio call meets: a rejected request, or a response text;
\* quotes tells whether the engine's SyntaxError message quotes the text
AnalysisInputs ==
    {[kind |-> "rejected", cause |-> c] : c \in RejectionCauses}
    \cup {[kind |-> "text", text |-> t, quotes |-> q] :
            t \in ResponseTexts, q \in BOOLEAN}

\* the SyntaxError of JSON.parse(text)
JsonParseError(text, quotes) ==
    [isError |-> TRUE,
     message |-> IF quotes THEN <<"Unexpected token in: ">> \o text.chars
                 ELSE <<"Unexpected token">>]

\* a catch block that throws the error on as it is
CatchRethrows(cause) == cause.message

\* the catch block of analyzeAudio: the message of the Error it throws
CatchMessage(cause) ==
    IF cause.isError /\ Includes(cause.message, "SAFETY")
    THEN SafetyMessage
    ELSE GenericMessage

\* analyzeAudio: [kind |-> "return", value] or [kind |-> "throw", message]
AnalyzeAudio(in) ==
    IF in.kind = "rejected"
    THEN [kind |-> "throw", message |-> CatchMessage(in.cause)]
    ELSE IF in.text.chars = <<>>
    THEN [kind |-> "throw",
          message |-> CatchMessage([isError |-> TRUE,
                                    message |-> EmptyResponseMessage])]
    ELSE IF ~in.text.json
    THEN [kind |-> "throw",
          message |-> CatchMessage(JsonParseError(in.text, in.quotes))]
    ELSE [kind |-> "return", value |-> in.text.value]

\* a value that `&&` lets through in renderContent
Truthy(v) == v \notin {"null", Undefined, ""}

\* case 'success' of renderContent renders ResultsView
ResultsRendered ==
    /\ status = "success"
    /\ Truthy(vocalProfile)
    /\ Truthy(eqSettings)
    /\ Truthy(appAudioBlob)
    /\ Truthy(audacityXml)

\* handleAudioSubmit up to its first await; AudioInput, which calls it, is
\* rendered in the 'idle' case only
HandleAudioSubmit(blob) ==
    /\ status = "idle"
    /\ job = "none"
    /\ status' = "processing"
    /\ error' = NullError
    /\ appAudioBlob' = blob
    /\ job' = "toBase64"
    /\ UNCHANGED <<vocalProfile, eqSettings, audacityXml, analysisIn, analysisOut>>
    /\ UNCHANGED <<vizVars, inputVars>>

\* blobToBase64 resolves; analyzeAudio is called
Base64Done ==
    /\ job = "toBase64"
    /\ job' = "analyzing"
    /\ UNCHANGED <<status, error, vocalProfile, eqSettings, appAudioBlob,
                   audacityXml, analysisIn, analysisOut>>
    /\ UNCHANGED <<vizVars, inputVars>>

\* blobToBase64 rejects: with its own Error (asError), or with the event of
\* reader.onerror, which is not an Error
Base64Failed(asError) ==
    /\ job = "toBase64"
    /\ job' = "none"
    /\ error' = IF asError THEN Base64FailedMessage ELSE UnknownErrorMessage
    /\ status' = "error"
    /\ UNCHANGED <<vocalProfile, eqSettings, appAudioBlob, audacityXml,
                   analysisIn, analysisOut>>
    /\ UNCHANGED <<vizVars, inputVars>>

\* analyzeAudio settles: the rest of the try block, or the catch block
AnalysisSettles(in) ==
    /\ job = "analyzing"
    /\ job' = "none"
    /\ analysisIn' = in
    /\ analysisOut' = AnalyzeAudio(in)
    /\ IF AnalyzeAudio(in).kind = "return"
       THEN /\ vocalProfile' = AnalyzeAudio(in).value.vocalProfile
            /\ eqSettings' = AnalyzeAudio(in).value.eqPreset
            /\ audacityXml' = AnalyzeAudio(in).value.audacityXml
            /\ status' = "success"
            /\ UNCHANGED error
       ELSE /\ error' = AnalyzeAudio(in).message
            /\ status' = "error"
            /\ UNCHANGED <<vocalProfile, eqSettings, audacityXml>>
    /\ UNCHANGED appAudioBlob
    /\ UNCHANGED <<vizVars, inputVars>>

\* handleReset: "Analyze Another" of ResultsView or "Try Again" of the error
\* view
HandleReset ==
    /\ status = "error" \/ ResultsRendered
    /\ status' = "idle"
    /\ error' = NullError
    /\ vocalProfile' = "null"
    /\ eqSettings' = "null"
    /\ appAudioBlob' = "null"
    /\ audacityXml' = "null"
    /\ UNCHANGED <<job, analysisIn, analysisOut>>
    /\ UNCHANGED <<vizVars, inputVars>>

AppNext ==
    \/ \E blob \in {"recording", "file"} : HandleAudioSubmit(blob)
    \/ Base64Done
    \/ \E asError \in BOOLEAN : Base64Failed(asError)
    \/ \E in \in AnalysisInputs : AnalysisSettles(in)
    \/ HandleReset

AppSpec == Init /\ [][AppNext]_vars

(***************************************************************************)
(* Properties of the capture life cycle (specification Spec).              *)
(***************************************************************************)
\* the timer callback of run r runs in this step
TimerStep(r) == pc[r] = "awaitTimer" /\ pc'[r] = "end"
\* decodeAudioData of run r rejects in this step
DecodeFailStep(r) == pc[r] = "awaitDecode" /\ pc'[r] = "end"
\* the plot area of the svg is not empty
PlotVisible == size.w - marginLeft - marginRight > 0 /\ size.h - marginTop - marginBottom > 0

\* C1: the context of every capture is closed exactly once on every exit
\* path: close() is never called on a context that is already closed, and no
\* capture ends with its context still open.
C1_ClosedExactlyOnce ==
    \A r \in Runs :
        /\ closeCalls[r] <= 1
        /\ pc[r] = "end" => ctxState[r] # "running"
        /\ ctxState[r] = "closed" => closeCalls[r] = 1

\* C2: at most one audio context is open at any time; every earlier run has
\* been disposed and a disposed run has no open context, so the cleanup closed
\* it before the next run constructed its own.
C2_OneOpenContext ==
    /\ Cardinality({r \in Runs : ctxState[r] = "running"}) <= 1
    /\ \A r \in Runs : r < nRuns => disposed[r]
    /\ \A r \in Runs : disposed[r] => ctxState[r] # "running"
    /\ \A r \in Runs : ctxState[r] = "running" => r = nRuns /\ phase = "mounted"

\* a second run holds the open context while the first run, still in flight,
\* had its context closed by the cleanup
C2_Witness ==
    /\ nRuns = 2
    /\ ctxState[2] = "running"
    /\ ctxState[1] = "closed"
    /\ pc[1] \in {"awaitBuffer", "awaitDecode", "awaitTimer"}

\* C3: a timer callback that fires when its context is already closed does
\* nothing: no snapshot read, no stop, no drawing, no error, no second close.
C3_ClosedTimerNoOp ==
    [][\A r \in Runs :
          (TimerStep(r) /\ ctxState[r] = "closed") =>
              /\ lastRead' = lastRead
              /\ source' = source
              /\ svg' = svg
              /\ lastCall' = lastCall
              /\ promise' = promise
              /\ closeCalls' = closeCalls
              /\ ctxState' = ctxState]_vars

\* the callback of a disposed run has fired on its closed context: the source
\* was never stopped and close() was called once, by the cleanup
C3_Witness ==
    \E r \in Runs :
        /\ pc[r] = "end"
        /\ source[r] = "playing"
        /\ disposed[r]
        /\ ctxState[r] = "closed"
        /\ closeCalls[r] = 1

\* C4: a decode failure always hands the error snapshot (no magnitudes, sample
\* rate 0, "Error decoding audio file.") to drawChart, leaves the context
\* closed, sets no timer, builds no graph, and processAudio() resolves.
C4_DecodeFailure ==
    [][\A r \in Runs :
          DecodeFailStep(r) =>
              /\ lastCall' = [run |-> r, dataArray |-> <<>>, sampleRate |-> 0,
                              message |-> "Error decoding audio file."]
              /\ (HasNode /\ PlotVisible) =>
                     svg'.text = "Error decoding audio file." /\ svg'.bars = <<>>
              /\ ctxState'[r] = "closed"
              /\ source'[r] = "none"
              /\ lastRead' = lastRead
              /\ promise'[r] = "resolved"]_vars

\* a capture ended by a decode failure while the component shows its message
C4_Witness ==
    \E r \in Runs :
        /\ pc[r] = "end"
        /\ lastCall.run = r
        /\ lastCall.message = DecodeErrorMessage
        /\ svg.text = DecodeErrorMessage
        /\ ctxState[r] = "closed"
        /\ closeCalls[r] = 1

\* C5: a timer callback on an open context yields the silence snapshot when
\* every magnitude read is zero, and otherwise the full array read (1024
\* magnitudes) with the sample rate of the decoded buffer and no message.
C5_Snapshot ==
    [][\A r \in Runs :
          (TimerStep(r) /\ ctxState[r] = "running") =>
              /\ lastRead'.run = r
              /\ Len(lastRead'.dataArray) = 1024
              /\ IF \A k \in 1..1024 : lastRead'.dataArray[k] = 0
                 THEN lastCall' = [run |-> r, dataArray |-> <<>>,
                                   sampleRate |-> 0,
                                   message |-> "Could not visualize audio: sample may be silent."]
                 ELSE lastCall' = [run |-> r, dataArray |-> lastRead'.dataArray,
                                   sampleRate |-> rateOf[r],
                                   message |-> Undefined]]_vars

\* a snapshot with a positive magnitude was drawn as bars
C5_Witness ==
    /\ lastCall.run # 0
    /\ lastCall.run = lastRead.run
    /\ Len(lastCall.dataArray) = 1024
    /\ lastCall.sampleRate > 0
    /\ Len(svg.bars) > 0

\* C6: the steps of one capture happen in order: the context is constructed
\* before the decode, the graph is built and playback started only when the
\* decode succeeded, the timer callback runs only after that, the snapshot is
\* read only on an open context, and the read is followed by stop and close.
C6_StepOrder ==
    [][\A r \in Runs :
          /\ pc'[r] # pc[r] =>
                 <<pc[r], pc'[r]>> \in
                     {<<"unused", "awaitBuffer">>, <<"unused", "end">>,
                      <<"awaitBuffer", "awaitDecode">>,
                      <<"awaitDecode", "awaitTimer">>, <<"awaitDecode", "end">>,
                      <<"awaitTimer", "end">>}
          /\ pc'[r] = "awaitDecode" => ctxState[r] # "null"
          /\ (source[r] = "none" /\ source'[r] # "none") =>
                 pc[r] = "awaitDecode" /\ source'[r] = "playing"
          /\ TimerStep(r) => ctxState[r] # "null" /\ source[r] = "playing"
          /\ (lastRead' # lastRead /\ lastRead'.run = r) =>
                 /\ TimerStep(r)
                 /\ ctxState[r] = "running"
                 /\ source'[r] = "stopped"
                 /\ ctxState'[r] = "closed"
          /\ source'[r] = "stopped" => lastRead'.run = r \/ source[r] = "stopped"]_vars

\* a capture went through all its steps
C6_Witness ==
    \E r \in Runs :
        /\ pc[r] = "end"
        /\ lastRead.run = r
        /\ source[r] = "stopped"
        /\ ctxState[r] = "closed"
        /\ closeCalls[r] = 1

\* C7: when the host refuses the audio context, processAudio() rejects and
\* that capture decodes nothing, reads nothing, draws nothing, and neither it
\* nor the later cleanup calls close().
C7_ConstructionRefused ==
    \A r \in Runs :
        /\ (pc[r] # "unused" /\ ctxState[r] = "null") => promise[r] = "rejected"
        /\ promise[r] = "rejected" =>
            /\ ctxState[r] = "null"
            /\ pc[r] = "end"
            /\ source[r] = "none"
            /\ rateOf[r] = 0
            /\ closeCalls[r] = 0
            /\ lastCall.run # r
            /\ lastRead.run # r

\* a refused capture whose cleanup has run
C7_Witness ==
    \E r \in Runs :
        /\ promise[r] = "rejected"
        /\ disposed[r]
        /\ closeCalls[r] = 0

(***************************************************************************)
(* Properties of drawChart (specification ChartSpec).                      *)
(***************************************************************************)
\* drawChart was called and got as far as drawing bars
BarsDrawn ==
    /\ lastCall.run # 0
    /\ PlotVisible
    /\ Len(lastCall.dataArray) > 0
    /\ lastCall.sampleRate # 0

BarIndices == 1..Len(svg.bars)

\* C8: every drawn bar is at least 1 pixel wide, whatever the (positive) plot
\* width and the number of filtered bins.
C8_WidthAtLeastOne ==
    \A k \in BarIndices : svg.bars[k].wnum >= svg.bars[k].wden

\* the adjustment points of eq within 0.1 of the bar's log10 frequency
Qualifying(eq, bar) ==
    {k \in 1..Len(eq) : LogClose(eq[k].frequency, bar.fnum, bar.fden)}

\* the bar of the bin at exactly hz Hz, if drawn
AtHz(bar, hz) == bar.fnum = hz * bar.fden

\* C9: a bar takes the boost colour when the first qualifying adjustment
\* point in sequence order has gain > 0, the cut colour when it has gain <= 0,
\* the neutral colour when no point qualifies; with several qualifying points
\* the earliest wins, so reordering the sequence changes the colour.
C9_FirstMatchColor ==
    BarsDrawn =>
        \A k \in BarIndices :
            LET bar == svg.bars[k]
                eq == eqOf[1]
                q == Qualifying(eq, bar)
            IN  /\ q = {} => bar.fill = "#00BFFF"
                /\ q # {} =>
                       \E first \in q :
                           /\ \A j \in q : first <= j
                           /\ eq[first].gain > 0 => bar.fill = "#22c55e"
                           /\ eq[first].gain <= 0 => bar.fill = "#ef4444"
                /\ (AtHz(bar, 1005) /\ eq = <<[frequency |-> 1000, gain |-> 3],
                                             [frequency |-> 5000, gain |-> -2]>>)
                       => bar.fill = "#22c55e"
                /\ (AtHz(bar, 5010) /\ eq = <<[frequency |-> 1000, gain |-> 3],
                                             [frequency |-> 5000, gain |-> -2]>>)
                       => bar.fill = "#ef4444"
                /\ (AtHz(bar, 50) /\ eq = <<[frequency |-> 1000, gain |-> 3],
                                           [frequency |-> 5000, gain |-> -2]>>)
                       => bar.fill = "#00BFFF"
                /\ (AtHz(bar, 1005) /\ eq = <<[frequency |-> 1000, gain |-> 0]>>)
                       => bar.fill = "#ef4444"
                /\ (AtHz(bar, 1005) /\ eq = <<[frequency |-> 1000, gain |-> -3],
                                             [frequency |-> 1100, gain |-> 2]>>)
                       => bar.fill = "#ef4444"
                /\ (AtHz(bar, 1005) /\ eq = <<[frequency |-> 1100, gain |-> 2],
                                             [frequency |-> 1000, gain |-> -3]>>)
                       => bar.fill = "#22c55e"

\* two points qualify for the bar at 1005 Hz and the earlier one, which is
\* the farther one, decided the colour
C9_Witness ==
    /\ BarsDrawn
    /\ eqOf[1] = <<[frequency |-> 1100, gain |-> 2], [frequency |-> 1000, gain |-> -3]>>
    /\ \E k \in BarIndices :
           /\ AtHz(svg.bars[k], 1005)
           /\ Cardinality(Qualifying(eqOf[1], svg.bars[k])) = 2
           /\ svg.bars[k].fill = BoostColor

\* C10: the bars drawn for N magnitudes at sample rate R are exactly the bins
\* i of 0..N-1 with 20 <= i*R/(2*N) <= 20000, in increasing order of i, each
\* with the frequency i*R/(2*N) and the magnitude at index i; bin 0 is never
\* drawn.
C10_BarsAreBinsInRange ==
    BarsDrawn =>
        LET n == Len(lastCall.dataArray)
            rate == lastCall.sampleRate
            inRange == {i \in 0..(n - 1) :
                           20 * 2 * n <= i * rate /\ i * rate <= 20000 * 2 * n}
        IN  /\ {svg.bars[k].index : k \in BarIndices} = inRange
            /\ Len(svg.bars) = Cardinality(inRange)
            /\ \A k \in BarIndices :
                   LET bar == svg.bars[k]
                   IN  /\ bar.index # 0
                       /\ bar.fnum * 2 * n = bar.index * rate * bar.fden
                       /\ bar.amplitude = lastCall.dataArray[bar.index + 1]
            /\ \A j, k \in BarIndices :
                   j < k => svg.bars[j].index < svg.bars[k].index

\* bins below 20 Hz were left out, and the bin at exactly 20 Hz was drawn
C10_Witness ==
    /\ BarsDrawn
    /\ Len(lastCall.dataArray) = 3
    /\ lastCall.sampleRate = 60
    /\ Len(svg.bars) = 1
    /\ svg.bars[1].index = 2
    /\ AtHz(svg.bars[1], 20)

\* C11: with a visible plot, drawChart given no magnitudes or a sample rate of
\* 0 draws no bars and shows the message it was given, or "No audio data to
\* display." when the message is missing or empty; it draws bars (and no
\* placeholder) only for a non-empty array with a non-zero sample rate.
C11_Placeholder ==
    (lastCall.run # 0 /\ PlotVisible) =>
        IF Len(lastCall.dataArray) = 0 \/ lastCall.sampleRate = 0
        THEN /\ svg.bars = <<>>
             /\ svg.axes
             /\ svg.text = IF lastCall.message \in {Undefined, ""}
                           THEN "No audio data to display."
                           ELSE lastCall.message
        ELSE svg.text = Undefined

\* magnitudes were supplied but the sample rate was 0 and the message empty:
\* the fallback text is shown
C11_Witness ==
    /\ lastCall.run # 0
    /\ PlotVisible
    /\ Len(lastCall.dataArray) > 0
    /\ lastCall.sampleRate = 0
    /\ lastCall.message = ""
    /\ svg.text = NoDataMessage
    /\ svg.bars = <<>>

\* C12: with a plot width or height <= 0 drawChart leaves the svg empty (no
\* axes, no text, no bars); no bar ever has a width with denominator 0, a
\* non-positive width or a negative height.
C12_DegenerateGeometry ==
    /\ (lastCall.run # 0 /\ ~PlotVisible) =>
           svg.axes = FALSE /\ svg.text = Undefined /\ svg.bars = <<>>
    /\ \A k \in BarIndices :
           /\ svg.bars[k].wden > 0
           /\ svg.bars[k].wnum > 0
           /\ svg.bars[k].hden > 0
           /\ svg.bars[k].hnum >= 0

\* drawable data was handed to drawChart on a plot of height 0: nothing shown
C12_Witness ==
    /\ lastCall.run # 0
    /\ size.w - marginLeft - marginRight > 0
    /\ size.h - marginTop - marginBottom = 0
    /\ Len(FilteredData(lastCall.dataArray, lastCall.sampleRate)) > 0
    /\ svg = EmptySvg

\* C14: a capture whose cleanup has run never draws afterwards: a drawChart
\* call made by a disposed run leaves the svg as it was.
C14_DisposedNeverDraws ==
    [][\A r \in Runs :
          (disposed[r] /\ lastCall' # lastCall /\ lastCall'.run = r) =>
              svg' = svg]_vars

(***************************************************************************)
(* Properties of AudioInput (specification InputSpec).                     *)
(***************************************************************************)
\* C13: a recording lasts at most 3 minutes: while isRecording, recordTime
\* never exceeds 180.
C13_RecordingAtMostThreeMinutes ==
    isRecording => recordTime <= 180

\* C17: at most one MediaRecorder is recording and at most one seconds
\* interval is running at any time, and whenever the user is not recording
\* (isRecording is false) or the component is unmounted, no recorder is
\* recording and no interval is running.
C17_OneRecorderOneInterval ==
    /\ Cardinality({i \in Recorders : recorders[i] = "recording"}) <= 1
    /\ Cardinality({i \in Recorders : intervals[i] = "running"}) <= 1
    /\ (~isRecording \/ ~inputMounted) =>
           /\ \A i \in Recorders : recorders[i] # "recording"
           /\ \A i \in Recorders : intervals[i] # "running"

(***************************************************************************)
(* Properties of App and analyzeAudio (specification AppSpec).             *)
(***************************************************************************)
\* non-null and non-empty
Present(v) == v \notin {"null", Undefined, "", "empty"}

\* C15: status 'success' comes with vocalProfile, eqSettings, audioBlob and
\* audacityXml all present, so that the results view is rendered; status
\* 'error' with a non-null error; status 'idle' with all five fields null; and
\* status is 'processing' only while the submission has not settled.
C15_StatusFields ==
    /\ status = "success" =>
           /\ Present(vocalProfile)
           /\ Present(eqSettings)
           /\ Present(appAudioBlob)
           /\ Present(audacityXml)
           /\ ResultsRendered
    /\ status = "error" => error # NullError
    /\ status = "idle" =>
           /\ error = NullError
           /\ vocalProfile = "null"
           /\ eqSettings = "null"
           /\ appAudioBlob = "null"
           /\ audacityXml = "null"
    /\ status = "processing" <=> job # "none"

\* the message of the failure an analyzeAudio call met, <<>> when none
UnderlyingMessage(in) ==
    IF in.kind = "rejected" THEN in.cause.message
    ELSE IF in.text.chars = <<>> THEN <<"Gemini returned an empty response.">>
    ELSE IF in.text.json THEN <<>>
    ELSE IF in.quotes THEN <<"Unexpected token in: ">> \o in.text.chars
    ELSE <<"Unexpected token">>

\* C16: analyzeAudio returns the parsed response, or throws an Error whose
\* message is the safety message if and only if the message of the underlying
\* error contains 'SAFETY', and the generic message otherwise; the messages
\* of the underlying failures never reach the caller.
C16_TwoFixedMessages ==
    analysisOut.kind # "none" =>
        LET failed == analysisIn.kind = "rejected" \/ ~analysisIn.text.json
            under == UnderlyingMessage(analysisIn)
        IN  /\ analysisOut.kind = "return" <=> ~failed
            /\ analysisOut.kind = "return" =>
                   analysisOut.value = analysisIn.text.value
            /\ analysisOut.kind = "throw" =>
                   /\ analysisOut.message \in
                          {<<"The audio could not be processed due to safety settings. Please try a different audio sample.">>,
                           <<"Failed to get analysis from Gemini. Please check the console for more details.">>}
                   /\ analysisOut.message = SafetyMessage <=>
                          \E i \in 1..Len(under) : under[i] = "SAFETY"
                   /\ analysisOut.message # under
                   /\ (status = "error" /\ job = "none") =>
                          error \in {SafetyMessage, GenericMessage,
                                     Base64FailedMessage, UnknownErrorMessage}

\* an empty response: its own message was replaced by the generic one, which
\* is what App shows
C16_Witness ==
    /\ analysisIn.kind = "text"
    /\ analysisIn.text.chars = <<>>
    /\ analysisOut.kind = "throw"
    /\ analysisOut.message = GenericMessage
    /\ status = "error"
    /\ error = GenericMessage

====
